---- MODULE Spec2Model ----
(***************************************************************************)
(* Optimal Mouse Grouping: the group size planner (compute_group_sizes),   *)
(* the MILP model builder (construct_mouse_grouping_model), the solve /    *)
(* extract / verify chain (construct_and_solve_mouse_grouping_model), the  *)
(* input loader and whole runs of find_optimal_mouse_grouping.             *)
(*                                                                         *)
(* Reals are kept exact.  Tumor sizes are integers; a centered value       *)
(* d_i = v_i - mean is kept as the numerator N*v_i - sum(v) over the       *)
(* denominator N = number of mice, and so are the proxies y_pos, y_neg and *)
(* the objective.  An entry of the assignment matrix x is a numerator over *)
(* XDen, so that a solver value within the tolerance of np.isclose of 0 or *)
(* 1 is a state of the model.                                              *)
(***************************************************************************)
EXTENDS Integers, Sequences, FiniteSets, TLC

VARIABLES
    pc,               \* position of the call under analysis
    input_file,       \* the Excel file at cfg.input_file_path
    cfg,              \* MouseGroupingConfig: the fields not held by a variable below
    df,               \* the data frame the loader returned
    num_mice,         \* compute_group_sizes: argument
    min_group_size,   \* compute_group_sizes: argument
    tumor_sizes,      \* builder argument: one tumor size per mouse
    group_sizes,      \* builder argument: one size per group
    max_seconds,      \* construct_and_solve argument
    print_model_stats, \* construct_and_solve argument: "True", "False" or "invalid"
    model_save_path,  \* construct_and_solve argument
    model,            \* the mip.Model once constructed, NoModel before
    files,            \* files written so far
    optimize_calls,   \* how often model.optimize was invoked
    status,           \* what model.optimize returned
    has_solution,     \* whether the variables carry values (.x is not None)
    x_arr,            \* x[i][j].x as read at line 68
    y_pos_arr,        \* y_pos[j].x as read at line 82
    y_neg_arr,        \* y_neg[j].x as read at line 83
    objective_value,  \* model.objective_value as read at line 87
    mouse_grouping,   \* the grouping derived at lines 77-79
    result            \* what the call returned or raised

vars == <<pc, input_file, cfg, df, num_mice, min_group_size, tumor_sizes, group_sizes, max_seconds,
          print_model_stats, model_save_path, model, files, optimize_calls, status, has_solution,
          x_arr, y_pos_arr, y_neg_arr, objective_value, mouse_grouping, result>>

(***************************************************************************)
(* Bounds of the model                                                     *)
(***************************************************************************)
MaxItems == 12     \* planner: num_mice and min_group_size range up to this
MaxNegative == 4   \* planner: ... and down to minus this
MaxMice == 3       \* builder: longest tumor size list drawn generically
MaxTumor == 2      \* builder: largest tumor size drawn generically
MaxSlack == 1      \* solver: how far a proxy may exceed its least feasible value

(***************************************************************************)
(* Arithmetic helpers                                                      *)
(***************************************************************************)
Abs(a) == IF a < 0 THEN -a ELSE a

Max(a, b) == IF a >= b THEN a ELSE b

Min(a, b) == IF a <= b THEN a ELSE b

RECURSIVE SeqSum(_)
SeqSum(s) == IF s = <<>> THEN 0 ELSE Head(s) + SeqSum(Tail(s))

SetMin(S) == CHOOSE a \in S : \A b \in S : a <= b

Repeat(v, k) == [i \in 1..k |-> v]

\* numpy floor division and remainder (the sign of the remainder follows the divisor)
FloorDiv(a, b) == IF b > 0 THEN a \div b ELSE (-a) \div (-b)

FloorMod(a, b) == a - b * FloorDiv(a, b)

(***************************************************************************)
(* Outcomes of a call                                                      *)
(***************************************************************************)
Pending == [kind |-> "pending"]

Raised(error, line) == [kind |-> "raised", error |-> error, line |-> line]

Returned(value) == [kind |-> "returned", value |-> value]

(***************************************************************************)
(* compute_group_sizes (mouse_grouping_utils.py, lines 72-99)              *)
(***************************************************************************)
\* line 84: np.divmod; numpy yields (0, 0) for a zero divisor (with a warning)
NumGroups(n, m) == IF m = 0 THEN 0 ELSE FloorDiv(n, m)

NumRemainders(n, m) == IF m = 0 THEN 0 ELSE FloorMod(n, m)

\* line 87: int(np.floor(num_remainders / num_groups)), num_groups # 0
NumRemaindersPerGroup(r, k) == FloorDiv(r, k)

\* line 91
NumFinalRemaindersMissing(r, k, per) == r - per
NumFinalRemainders(r, k, per) == r - k * per

\* line 95: group_sizes[:f] += 1 (a negative f counts from the end)
AddFinalRemaindersToLast(sizes, f) ==
    [i \in 1..Len(sizes) |-> IF i > Len(sizes) - f THEN sizes[i] + 1 ELSE sizes[i]]
AddFinalRemainders(sizes, f) ==
    LET stop == IF f >= 0 THEN Min(f, Len(sizes)) ELSE Max(Len(sizes) + f, 0)
    IN  [i \in 1..Len(sizes) |-> IF i <= stop THEN sizes[i] + 1 ELSE sizes[i]]

compute_group_sizes(n, m) ==
    LET k == NumGroups(n, m)
        r == NumRemainders(n, m)
    IN  IF k < 0 THEN Raised("ValueError", 85)          \* np.repeat: negative repeats
        ELSE IF k = 0 /\ r = 0 THEN Raised("ValueError", 87)     \* int(nan)
        ELSE IF k = 0 THEN Raised("OverflowError", 87)           \* int(+-inf)
        ELSE
          LET per == NumRemaindersPerGroup(r, k)
              base == Repeat(m + per, k)
              f == NumFinalRemainders(r, k, per)
              sizes == AddFinalRemainders(base, f)
          IN  IF f # n - SeqSum(base) THEN Raised("AssertionError", 92)
              ELSE IF ~(f < k) THEN Raised("AssertionError", 93)
              ELSE IF SeqSum(sizes) # n THEN Raised("AssertionError", 97)
              ELSE IF \E i \in 1..k : sizes[i] < m THEN Raised("AssertionError", 98)
              ELSE Returned(sizes)

(***************************************************************************)
(* Values of the variables a specification does not use                    *)
(***************************************************************************)
NoModel == [built |-> FALSE]

None == "None"

NoPath == [kind |-> "None"]

NotRead == <<>>

\* No input file at the path
NoFile == [exists |-> FALSE]

\* MouseGroupingConfig with its defaults (mouse_grouping_core.py, lines 24-44);
\* file names are kept by their endings
DefaultCfg ==
    [orig_id_column_name |-> "Mouse ID",
     orig_tumor_size_column_name |-> "Tumor size",
     output_folder_is_dir |-> TRUE,
     save_model |-> FALSE,
     model_file_suffix |-> ".lp",
     plot_file_suffix |-> ".png"]

LoaderIdle == input_file = NoFile /\ cfg = DefaultCfg /\ df = NotRead

PlannerIdle == num_mice = 0 /\ min_group_size = 0

BuilderIdle == tumor_sizes = <<>> /\ group_sizes = <<>> /\ model = NoModel

SolverIdle ==
    /\ max_seconds = 1 /\ print_model_stats = "False"
    /\ model_save_path = NoPath /\ files = {}
    /\ optimize_calls = 0 /\ status = None /\ has_solution = FALSE
    /\ x_arr = NotRead /\ y_pos_arr = NotRead /\ y_neg_arr = NotRead
    /\ objective_value = 0 /\ mouse_grouping = NotRead

(***************************************************************************)
(* SpecPlan: the planner applied to bounded arguments and to the           *)
(* documented examples                                                     *)
(***************************************************************************)
PlanExamples == {<<44, 5>>, <<14, 5>>, <<199, 50>>}

PlanInputs ==
    ((-MaxNegative)..MaxItems) \X ((-MaxNegative)..MaxItems) \cup PlanExamples

InitPlan ==
    /\ LoaderIdle
    /\ pc = "plan"
    /\ \E a \in PlanInputs : num_mice = a[1] /\ min_group_size = a[2]
    /\ BuilderIdle /\ SolverIdle
    /\ result = Pending

ComputeGroupSizes ==
    /\ pc = "plan"
    /\ UNCHANGED <<input_file, cfg, df>>
    /\ result' = compute_group_sizes(num_mice, min_group_size)
    /\ pc' = "planned"
    /\ UNCHANGED <<num_mice, min_group_size, tumor_sizes, group_sizes, max_seconds,
                   print_model_stats, model_save_path, model, files, optimize_calls, status,
                   has_solution, x_arr, y_pos_arr, y_neg_arr, objective_value,
                   mouse_grouping>>

NextPlan == ComputeGroupSizes

SpecPlan == InitPlan /\ [][NextPlan]_vars

PlanValid == num_mice >= min_group_size /\ min_group_size >= 1

\* C1: for total_items >= min_group_size >= 1 the planner returns (no assertion
\* trips), and the sizes sum to total_items, are each >= min_group_size and
\* differ by at most 1.
C1_PlanPostconditions ==
    (pc = "planned" /\ PlanValid) =>
        /\ result.kind = "returned"
        /\ SeqSum(result.value) = num_mice
        /\ \A i \in 1..Len(result.value) : result.value[i] >= min_group_size
        /\ \A i, j \in 1..Len(result.value) : result.value[i] - result.value[j] <= 1

C1_Witness ==
    /\ pc = "planned" /\ num_mice = 11 /\ min_group_size = 3
    /\ result.kind = "returned" /\ result.value = <<4, 4, 3>>

\* C2: for total_items >= min_group_size >= 1 the planner returns exactly
\* K = floor(total_items / min_group_size) sizes, the first (total_items mod K)
\* equal to floor(total_items / K) + 1 and the rest equal to floor(total_items / K);
\* (44,5) gives [6,6,6,6,5,5,5,5], (14,5) gives [7,7], (199,50) gives [67,66,66].
C2_PlanShape ==
    (pc = "planned" /\ PlanValid) =>
        LET K == num_mice \div min_group_size
        IN  /\ result.kind = "returned"
            /\ Len(result.value) = K
            /\ \A i \in 1..K :
                  result.value[i] =
                      (num_mice \div K) + (IF i <= num_mice % K THEN 1 ELSE 0)
            /\ (num_mice = 44 /\ min_group_size = 5)
                  => result.value = <<6, 6, 6, 6, 5, 5, 5, 5>>
            /\ (num_mice = 14 /\ min_group_size = 5) => result.value = <<7, 7>>
            /\ (num_mice = 199 /\ min_group_size = 50)
                  => result.value = <<67, 66, 66>>

C2_Witness ==
    /\ pc = "planned" /\ num_mice = 199 /\ min_group_size = 50
    /\ result.kind = "returned" /\ result.value = <<67, 66, 66>>

\* C3: the planner fails, returning no group sizes, whenever min_group_size < 1
\* or total_items < min_group_size.
C3_PlanRejectsInvalid ==
    (pc = "planned" /\ (min_group_size < 1 \/ num_mice < min_group_size)) =>
        result.kind = "raised"


(***************************************************************************)
(* construct_mouse_grouping_model (mouse_grouping_mip.py, lines 99-159)    *)
(***************************************************************************)
AllAtLeast(s, low) == \A i \in 1..Len(s) : s[i] >= low

\* line 111: "not len(tumor_sizes) >= 3 and np.all(tumor_sizes >= 0)": Python reads
\* it as (not (len >= 3)) and np.all(...)
TumorSizesRejected(ts) == ~(Len(ts) >= 3) /\ AllAtLeast(ts, 0)

GroupSizesRejectedBelowThree(gs) == ~(Len(gs) >= 3) /\ AllAtLeast(gs, 1)

\* line 113: the same shape, (not (len >= 2)) and np.all(group_sizes > 0)
GroupSizesRejected(gs) == ~(Len(gs) >= 2) /\ AllAtLeast(gs, 1)

\* line 115
LengthMismatchShortOnly(ts, gs) == Len(ts) < SeqSum(gs)
LengthMismatch(ts, gs) == Len(ts) # SeqSum(gs)

\* line 133: d_i = tumor_sizes[i] - mean, as the numerator over len(tumor_sizes)
CenteredValues(ts) == [i \in 1..Len(ts) |-> Len(ts) * ts[i] - SeqSum(ts)]

\* lines 121-157: the model's data; its variables, constraints and objective are
\* the operators ModelVariablesOk, GroupCardinality, SingleAssignment,
\* DeviationLink and Objective below
BuiltModel(ts, gs) ==
    [built |-> TRUE, num_mice |-> Len(ts), num_groups |-> Len(gs),
     g |-> gs, d |-> CenteredValues(ts)]

construct_mouse_grouping_model(ts, gs) ==
    IF TumorSizesRejected(ts) THEN Raised("AttributeError", 112)
    ELSE IF GroupSizesRejected(gs) THEN Raised("AttributeError", 114)
    ELSE IF LengthMismatch(ts, gs) THEN Raised("ValueError", 116)
    ELSE Returned(BuiltModel(ts, gs))

(***************************************************************************)
(* SpecBuild: the builder applied to bounded arguments, valid or not       *)
(***************************************************************************)
MaxGroups == 2     \* builder: longest group size list drawn generically

SeqsUpTo(S, n) == UNION {[1..k -> S] : k \in 0..n}

BuildTumorInputs == SeqsUpTo((-1)..1, MaxMice)

BuildGroupInputs == SeqsUpTo((-1)..MaxMice, MaxGroups)

InitBuild ==
    /\ LoaderIdle
    /\ pc = "build"
    /\ PlannerIdle /\ SolverIdle
    /\ tumor_sizes \in BuildTumorInputs
    /\ group_sizes \in BuildGroupInputs
    /\ model = NoModel
    /\ result = Pending

ConstructModel ==
    /\ pc = "build"
    /\ UNCHANGED <<input_file, cfg, df>>
    /\ LET r == construct_mouse_grouping_model(tumor_sizes, group_sizes)
       IN  /\ result' = r
           /\ model' = IF r.kind = "returned" THEN r.value ELSE model
    /\ pc' = "built"
    /\ UNCHANGED <<num_mice, min_group_size, tumor_sizes, group_sizes, max_seconds,
                   print_model_stats, model_save_path, files, optimize_calls, status, has_solution,
                   x_arr, y_pos_arr, y_neg_arr, objective_value, mouse_grouping>>

NextBuild == ConstructModel

SpecBuild == InitBuild /\ [][NextBuild]_vars

\* C4: the builder raises, before creating the model, whenever there are fewer
\* than 3 tumor sizes, or some tumor size < 0, or fewer than 2 groups, or some
\* group size <= 0.
C4_BuilderRejectsEachViolation ==
    (/\ pc = "built"
     /\ \/ Len(tumor_sizes) < 3
        \/ \E i \in 1..Len(tumor_sizes) : tumor_sizes[i] < 0
        \/ Len(group_sizes) < 2
        \/ \E j \in 1..Len(group_sizes) : group_sizes[j] <= 0)
    => (result.kind = "raised" /\ model = NoModel)

\* C5: whenever len(tumor_sizes) # sum(group_sizes) the builder raises before the
\* model or any variable is created, so there is nothing to optimize.
C5_LengthMismatchRejected ==
    (pc = "built" /\ Len(tumor_sizes) # SeqSum(group_sizes))
    => (result.kind = "raised" /\ model = NoModel /\ optimize_calls = 0)

C5_Witness ==
    /\ pc = "built"
    /\ Len(tumor_sizes) = 3 /\ group_sizes = <<1, 1>>
    /\ result = Raised("ValueError", 116)


(***************************************************************************)
(* The mixed-integer program that construct_mouse_grouping_model states    *)
(* (lines 129-157), over a built model m.  x is a matrix of 0/1 integers;  *)
(* the proxies y[j].pos, y[j].neg and the objective are numerators over    *)
(* m.num_mice, like m.d.                                                   *)
(***************************************************************************)
RECURSIVE SumTo(_, _)
SumTo(f, n) == IF n = 0 THEN 0 ELSE f[n] + SumTo(f, n - 1)

\* line 136: one BINARY variable per mouse and group; a row of them
BinaryRows(m) == [1..m.num_groups -> {0, 1}]

\* lines 148-149: each mouse is assigned to one group
SingleAssignment(row, m) == SumTo(row, m.num_groups) = 1

\* lines 144-145: group j holds g[j] mice
GroupCardinalityDropped(x, m) == TRUE
GroupCardinality(x, m) ==
    \A j \in 1..m.num_groups :
        SumTo([i \in 1..m.num_mice |-> x[i][j]], m.num_mice) = m.g[j]

\* line 154, left-hand side: the total centered value of group j
GroupTotal(x, m, j) == SumTo([i \in 1..m.num_mice |-> m.d[i] * x[i][j]], m.num_mice)

\* line 154: the link between a group's total and its two proxies
DeviationLink(total, pos, neg) == total = pos - neg

\* lines 140-141: lb = 0 on both proxies
ProxyBounds(pos, neg) == pos >= 0 /\ neg >= 0

\* line 157: the objective
ObjectiveDifference(y) == SumTo([j \in 1..Len(y) |-> y[j].pos - y[j].neg], Len(y))
ObjectivePositiveOnly(y) == SumTo([j \in 1..Len(y) |-> y[j].pos], Len(y))
Objective(y) == SumTo([j \in 1..Len(y) |-> y[j].pos + y[j].neg], Len(y))

\* The matrices x that satisfy the two assignment constraint sets
Assignments(m) ==
    {x \in [1..m.num_mice -> {row \in BinaryRows(m) : SingleAssignment(row, m)}] :
        GroupCardinality(x, m)}

\* The proxy pairs feasible for a group total.  The proxies are unbounded above;
\* each is enumerated from its least feasible value, max(0, total) and
\* max(0, -total), to MaxSlack above it.
ProxyPairs(total) ==
    {p \in [pos : Max(0, total)..(Max(0, total) + MaxSlack),
            neg : Max(0, -total)..(Max(0, -total) + MaxSlack)] :
        DeviationLink(total, p.pos, p.neg) /\ ProxyBounds(p.pos, p.neg)}

RECURSIVE ProxyVectors(_, _, _)
ProxyVectors(x, m, k) ==
    IF k = 0 THEN {<<>>}
    ELSE {Append(v, p) : v \in ProxyVectors(x, m, k - 1),
                         p \in ProxyPairs(GroupTotal(x, m, k))}

FeasiblePoints(m) ==
    UNION {{[x |-> x, y |-> y] : y \in ProxyVectors(x, m, m.num_groups)} :
           x \in Assignments(m)}

OptimalPoints(m) ==
    LET F == FeasiblePoints(m)
        best == SetMin({Objective(pt.y) : pt \in F})
    IN  {pt \in F : Objective(pt.y) = best}

(***************************************************************************)
(* np.isclose with its default tolerances (line 71), on numerators a and b *)
(* over the denominator den:  |a - b| / den <= atol + rtol * |b| / den     *)
(***************************************************************************)
RTolInv == 100000

ATolInv == 100000000

IsClose(a, b, den) ==
    Abs(a - b) <= (Abs(b) \div RTolInv)
                    + (den + (Abs(b) % RTolInv) * (ATolInv \div RTolInv)) \div ATolInv

\* The denominator of the entries of x_arr: 1 / XDen = 1e-6, a value a solver may
\* hand back for a binary variable at 0, and within the tolerance
XDen == 10 * RTolInv

\* The floats the solver hands back for a point of the program
SolverMatrix(x, m) ==
    [i \in 1..m.num_mice |-> [j \in 1..m.num_groups |-> x[i][j] * XDen]]

(***************************************************************************)
(* SpecOpt: plan (or be given) the group sizes, build the model, and let   *)
(* an exact solver return any optimal point of it                          *)
(***************************************************************************)
\* End-to-end example: 10 mice, min_group_size 5
TenMice == <<1, 2, 3, 4, 5, 6, 95, 96, 97, 98>>

\* 7 mice and min_group_size 2: planned sizes 3, 2, 2
SevenMice == <<0, 0, 0, 0, 0, 3, 4>>

OptTumorInputs == UNION {[1..n -> 0..MaxTumor] : n \in 3..MaxMice}

ValidGroupSizes(n) ==
    {gs \in SeqsUpTo(1..n, n) : Len(gs) >= 2 /\ SeqSum(gs) = n}

InitOpt ==
    /\ LoaderIdle
    /\ SolverIdle
    /\ model = NoModel
    /\ result = Pending
    /\ \/ /\ pc = "plan"
          /\ \/ tumor_sizes \in OptTumorInputs /\ min_group_size \in 1..MaxMice
             \/ tumor_sizes = TenMice /\ min_group_size = 5
             \/ tumor_sizes = SevenMice /\ min_group_size = 2
          /\ num_mice = Len(tumor_sizes)
          /\ group_sizes = <<>>
       \/ /\ pc = "build"
          /\ tumor_sizes \in OptTumorInputs
          /\ group_sizes \in ValidGroupSizes(Len(tumor_sizes))
          /\ PlannerIdle

\* mouse_grouping_core.py lines 110-111
PlanGroupSizes ==
    /\ pc = "plan"
    /\ UNCHANGED <<input_file, cfg, df>>
    /\ LET r == compute_group_sizes(num_mice, min_group_size)
       IN  /\ result' = r
           /\ group_sizes' = IF r.kind = "returned" THEN r.value ELSE group_sizes
           /\ pc' = IF r.kind = "returned" THEN "build" ELSE "failed"
    /\ UNCHANGED <<num_mice, min_group_size, tumor_sizes, max_seconds,
                   print_model_stats, model_save_path, model, files, optimize_calls, status,
                   has_solution, x_arr, y_pos_arr, y_neg_arr, objective_value,
                   mouse_grouping>>

\* model.optimize of an exact solver on a feasible model: status OPTIMAL and the
\* values of some optimal point
OptimizeExactly ==
    /\ pc = "built"
    /\ UNCHANGED <<input_file, cfg, df>>
    /\ model.built
    /\ \E pt \in OptimalPoints(model) :
          /\ x_arr' = SolverMatrix(pt.x, model)
          /\ y_pos_arr' = [j \in 1..model.num_groups |-> pt.y[j].pos]
          /\ y_neg_arr' = [j \in 1..model.num_groups |-> pt.y[j].neg]
          /\ objective_value' = Objective(pt.y)
    /\ status' = "OPTIMAL"
    /\ has_solution' = TRUE
    /\ optimize_calls' = optimize_calls + 1
    /\ pc' = "optimized"
    /\ UNCHANGED <<num_mice, min_group_size, tumor_sizes, group_sizes, max_seconds,
                   print_model_stats, model_save_path, model, files, mouse_grouping, result>>

NextOpt == PlanGroupSizes \/ ConstructModel \/ OptimizeExactly

SpecOpt == InitOpt /\ [][NextOpt]_vars


(***************************************************************************)
(* The grouping problem stated directly, without the program: partitions  *)
(* of the mice into groups of the prescribed sizes                         *)
(***************************************************************************)
Partitions(n, gs) ==
    {a \in [1..n -> 1..Len(gs)] :
        \A j \in 1..Len(gs) : Cardinality({i \in 1..n : a[i] = j}) = gs[j]}

RECURSIVE SumOver(_, _)
SumOver(f, S) ==
    IF S = {} THEN 0
    ELSE LET i == CHOOSE i \in S : TRUE IN f[i] + SumOver(f, S \ {i})

\* Sum of (value - mean) over the mice in S, times the number of mice
CenteredTotal(ts, S) == SumOver([i \in 1..Len(ts) |-> Len(ts) * ts[i] - SeqSum(ts)], S)

Members(a, j) == {i \in DOMAIN a : a[i] = j}

\* Sum over groups of |group total of centered values|, times the number of mice
SumForm(ts, gs, a) ==
    SumOver([j \in 1..Len(gs) |-> Abs(CenteredTotal(ts, Members(a, j)))], 1..Len(gs))

RECURSIVE SeqProduct(_)
SeqProduct(s) == IF s = <<>> THEN 1 ELSE Head(s) * SeqProduct(Tail(s))

\* Sum over groups of |group mean - overall mean|, times the number of mice and
\* the product of the group sizes
MeanForm(ts, gs, a) ==
    SumOver([j \in 1..Len(gs) |->
                Abs(CenteredTotal(ts, Members(a, j))) * (SeqProduct(gs) \div gs[j])],
            1..Len(gs))

\* The partition a returned assignment matrix stands for
ReturnedPartition == [i \in 1..Len(x_arr) |-> CHOOSE j \in 1..Len(x_arr[i]) : x_arr[i][j] = XDen]

\* C8: for valid (values, group_sizes) the optimal objective of the built model
\* equals the minimum, over all partitions into groups of the prescribed sizes,
\* of the sum over groups of |sum of (value_i - mean) over the group|.
C8_OptimumIsMinimalTotalDeviation ==
    pc = "optimized" =>
        objective_value =
            SetMin({SumForm(tumor_sizes, group_sizes, a) :
                       a \in Partitions(Len(tumor_sizes), group_sizes)})

C8_Witness ==
    /\ pc = "optimized"
    /\ tumor_sizes = <<0, 0, 2>> /\ group_sizes = <<1, 2>>
    /\ objective_value = 4
    /\ y_neg_arr[1] = 2 /\ y_pos_arr[2] = 2

\* C9: for the values [1,2,3,4,5,6,95,96,97,98] and min_group_size 5 the planner
\* yields two groups of 5, and the optimal objective of the built model equals
\* the least total absolute group deviation over all C(10,5) = 252 choices of the
\* first group.
C9_TenMiceOptimum ==
    (pc = "optimized" /\ tumor_sizes = TenMice /\ min_group_size = 5) =>
        LET firsts == {S \in SUBSET (1..10) : Cardinality(S) = 5}
        IN  /\ group_sizes = <<5, 5>>
            /\ Cardinality(firsts) = 252
            /\ objective_value =
                 SetMin({Abs(CenteredTotal(TenMice, S))
                           + Abs(CenteredTotal(TenMice, (1..10) \ S)) : S \in firsts})

C9_Witness ==
    /\ pc = "optimized" /\ tumor_sizes = TenMice /\ min_group_size = 5
    /\ group_sizes = <<5, 5>>
    /\ objective_value = 10

\* C10: every partition that minimizes the model's objective (the sum form) also
\* minimizes the sum over groups of |group mean - overall mean| (the mean form).
C10_SumOptimalIsMeanOptimal ==
    pc = "optimized" =>
        MeanForm(tumor_sizes, group_sizes, ReturnedPartition) =
            SetMin({MeanForm(tumor_sizes, group_sizes, a) :
                       a \in Partitions(Len(tumor_sizes), group_sizes)})

\* C17: in every optimal solution of the built model, for every group at most
\* one of y_pos[j], y_neg[j] is non-zero, and y_pos[j] - y_neg[j] equals the
\* total centered value of the group's members.
C17_OptimalProxiesComplementary ==
    pc = "optimized" =>
        \A j \in 1..Len(group_sizes) :
            /\ y_pos_arr[j] = 0 \/ y_neg_arr[j] = 0
            /\ y_pos_arr[j] - y_neg_arr[j] =
                   CenteredTotal(tumor_sizes, Members(ReturnedPartition, j))

C17_Witness ==
    /\ pc = "optimized"
    /\ tumor_sizes = <<0, 0, 2>> /\ group_sizes = <<2, 1>>
    /\ y_pos_arr = <<2, 0>> /\ y_neg_arr = <<0, 2>>


(***************************************************************************)
(* save_optimization_model_to_file (mouse_grouping_mip.py, lines 165-182). *)
(* A path is [kind |-> "None"], [kind |-> "empty"] (the string "") or      *)
(* [kind |-> "path", suffix, folder_is_dir].                               *)
(***************************************************************************)
SaveNeverRequested(path) == FALSE

\* line 53: model_save_path is not None and model_save_path != ""
SaveRequested(path) == path.kind = "path"

\* str.lower (line 172) on the endings the model uses
Lower(suffix) ==
    CASE suffix = ".LP" -> ".lp"
      [] suffix = ".MPS" -> ".mps"
      [] suffix = ".PNG" -> ".png"
      [] OTHER -> suffix

SaveWithoutFolderCheck(path) ==
    IF ~(Lower(path.suffix) \in {".lp", ".mps"}) THEN Raised("ValueError", 173)
    ELSE Returned(path)

save_optimization_model_to_file(path) ==
    IF ~(Lower(path.suffix) \in {".lp", ".mps"}) THEN Raised("ValueError", 173)
    ELSE IF ~path.folder_is_dir THEN Raised("ValueError", 178)
    ELSE Returned(path)                                         \* line 181

(***************************************************************************)
(* construct_and_solve_mouse_grouping_model (lines 15-93)                  *)
(***************************************************************************)
\* The statuses of mip.OptimizationStatus (line 64)
Statuses == {"OPTIMAL", "ERROR", "INFEASIBLE", "UNBOUNDED", "FEASIBLE",
             "INT_INFEASIBLE", "NO_SOLUTION_FOUND"}

\* The statuses with which the solver holds a solution
SolutionStatuses == {"OPTIMAL", "FEASIBLE"}

MaxSecondsRejectedNegativeOnly(seconds) == seconds < 0

\* line 35
MaxSecondsRejected(seconds) == seconds < 1

\* lines 34-58, up to the invocation of model.optimize.  The statistics of
\* lines 44-50 are only printed.
CallConstructAndSolve ==
    /\ pc = "call"
    /\ UNCHANGED <<input_file, cfg, df>>
    /\ IF MaxSecondsRejected(max_seconds)
       THEN /\ result' = Raised("AttributeError", 36)
            /\ pc' = "done"
            /\ UNCHANGED <<model, files, optimize_calls>>
       ELSE IF print_model_stats \notin {"True", "False"}
       THEN /\ result' = Raised("AttributeError", 38)
            /\ pc' = "done"
            /\ UNCHANGED <<model, files, optimize_calls>>
       ELSE LET b == construct_mouse_grouping_model(tumor_sizes, group_sizes)
            IN  IF b.kind = "raised"
                THEN /\ result' = b
                     /\ pc' = "done"
                     /\ UNCHANGED <<model, files, optimize_calls>>
                ELSE LET w == IF SaveRequested(model_save_path)
                              THEN save_optimization_model_to_file(model_save_path)
                              ELSE Returned(None)
                     IN  /\ model' = b.value
                         /\ IF w.kind = "raised"
                            THEN /\ result' = w
                                 /\ pc' = "done"
                                 /\ UNCHANGED <<files, optimize_calls>>
                            ELSE /\ files' = IF SaveRequested(model_save_path)
                                             THEN files \cup {w.value} ELSE files
                                 /\ optimize_calls' = optimize_calls + 1
                                 /\ pc' = "optimizing"
                                 /\ UNCHANGED result
    /\ UNCHANGED <<num_mice, min_group_size, tumor_sizes, group_sizes, max_seconds,
                   print_model_stats, model_save_path, status, has_solution, x_arr, y_pos_arr,
                   y_neg_arr, objective_value, mouse_grouping>>

\* line 58: model.optimize returns.  The solver is opaque: any status; with a
\* solution status the variables carry values, with another they may (a stale
\* or partial solution) or may not (.x is None)
OptimizeReturns ==
    /\ pc = "optimizing"
    /\ UNCHANGED <<input_file, cfg, df>>
    /\ status' \in Statuses
    /\ has_solution' \in BOOLEAN
    /\ status' \in SolutionStatuses => has_solution'
    /\ pc' = "extract"
    /\ UNCHANGED <<num_mice, min_group_size, tumor_sizes, group_sizes, max_seconds,
                   print_model_stats, model_save_path, model, files, optimize_calls, x_arr, y_pos_arr,
                   y_neg_arr, objective_value, mouse_grouping, result>>

\* The values a solver may report for a binary variable: 0, 1, and 0 off by
\* its integrality tolerance
XVals == {0, 1, XDen}

RowSum(x, i) == SumTo(x[i], Len(x[i]))

ColumnSum(x, j) == SumTo([i \in 1..Len(x) |-> x[i][j]], Len(x))

\* line 71
RowsValid(x) == \A i \in 1..Len(x) : IsClose(RowSum(x, i), XDen, XDen)

ColumnsUnchecked(x, gs) == TRUE

\* line 73
ColumnsValid(x, gs) ==
    \A j \in 1..Len(gs) : IsClose(ColumnSum(x, j), gs[j] * XDen, XDen)

\* lines 77-79: np.where(x_arr)[1] + 1, the (1-based) column of every non-zero
\* entry, row by row
RECURSIVE NonZeroColumns(_, _)
NonZeroColumns(row, j) ==
    IF j > Len(row) THEN <<>>
    ELSE (IF row[j] # 0 THEN <<j>> ELSE <<>>) \o NonZeroColumns(row, j + 1)

RECURSIVE WhereColumns(_, _)
WhereColumns(x, i) ==
    IF i > Len(x) THEN <<>>
    ELSE NonZeroColumns(x[i], 1) \o WhereColumns(x, i + 1)

VerifyColumnsFirst(x, gs) ==
    IF ~ColumnsValid(x, gs) THEN Raised("ValueError", 74)
    ELSE IF ~RowsValid(x) THEN Raised("ValueError", 72)
    ELSE Returned(WhereColumns(x, 1))

\* lines 70-79: the row check, then the column check, then the grouping
VerifyAndDeriveGrouping(x, gs) ==
    IF ~RowsValid(x) THEN Raised("ValueError", 72)
    ELSE IF ~ColumnsValid(x, gs) THEN Raised("ValueError", 74)
    ELSE Returned(WhereColumns(x, 1))

\* lines 67-79: read x, verify it, derive the grouping
ReadAssignment ==
    /\ pc = "extract"
    /\ UNCHANGED <<input_file, cfg, df>>
    /\ IF ~has_solution
       THEN /\ result' = Raised("TypeError", 71)     \* sum over entries that are None
            /\ pc' = "done"
            /\ UNCHANGED <<x_arr, mouse_grouping>>
       ELSE \E x \in [1..model.num_mice -> [1..model.num_groups -> XVals]] :
              /\ x_arr' = x
              /\ LET v == VerifyAndDeriveGrouping(x, group_sizes)
                 IN  IF v.kind = "raised"
                     THEN /\ result' = v
                          /\ pc' = "done"
                          /\ UNCHANGED mouse_grouping
                     ELSE /\ mouse_grouping' = v.value
                          /\ pc' = "deviations"
                          /\ UNCHANGED result
    /\ UNCHANGED <<num_mice, min_group_size, tumor_sizes, group_sizes, max_seconds,
                   print_model_stats, model_save_path, model, files, optimize_calls, status,
                   has_solution, y_pos_arr, y_neg_arr, objective_value>>

MaxProxy == 1      \* solver: largest proxy value read back, over num_mice

GroupDeviationsSum(yp, yn) == [j \in 1..Len(yp) |-> yp[j] + yn[j]]

\* line 84
GroupDeviations(yp, yn) == [j \in 1..Len(yp) |-> yp[j] - yn[j]]

\* line 90: sum(abs(group_deviations))
SumAbs(gd) == SumTo([j \in 1..Len(gd) |-> Abs(gd[j])], Len(gd))

\* lines 81-93: read the proxies and the objective, cross-check, return
ReadObjective ==
    /\ pc = "deviations"
    /\ UNCHANGED <<input_file, cfg, df>>
    /\ \E yp \in [1..model.num_groups -> 0..MaxProxy],
          yn \in [1..model.num_groups -> 0..MaxProxy],
          obj \in 0..(2 * model.num_groups * MaxProxy) :
          /\ y_pos_arr' = yp
          /\ y_neg_arr' = yn
          /\ objective_value' = obj
          /\ result' =
               IF ~IsClose(obj, SumAbs(GroupDeviations(yp, yn)), model.num_mice)
               THEN Raised("ValueError", 91)
               ELSE Returned([mouse_grouping |-> mouse_grouping,
                              objective_value |-> obj,
                              group_deviations |-> GroupDeviations(yp, yn)])
    /\ pc' = "done"
    /\ UNCHANGED <<num_mice, min_group_size, tumor_sizes, group_sizes, max_seconds,
                   print_model_stats, model_save_path, model, files, optimize_calls, status,
                   has_solution, x_arr, mouse_grouping>>

(***************************************************************************)
(* SpecSolve: construct_and_solve_mouse_grouping_model against an opaque   *)
(* solver                                                                  *)
(***************************************************************************)
SolveCases ==
    {<<(<<0, 0, 3>>), (<<2, 1>>)>>,
     <<(<<1, 1, 1>>), (<<1, 2>>)>>,
     <<(<<1, 1, 1>>), (<<1, 1>>)>>,
     <<(<<1, 1>>), (<<1, 1>>)>>}

SolvePaths ==
    {NoPath,
     [kind |-> "path", suffix |-> ".txt", folder_is_dir |-> TRUE]}

InitSolve ==
    /\ LoaderIdle
    /\ pc = "call"
    /\ PlannerIdle
    /\ \E c \in SolveCases : tumor_sizes = c[1] /\ group_sizes = c[2]
    /\ max_seconds \in 0..1
    /\ print_model_stats \in {"True", "False", "invalid"}
    /\ model_save_path \in SolvePaths
    /\ model = NoModel /\ files = {}
    /\ optimize_calls = 0 /\ status = None /\ has_solution = FALSE
    /\ x_arr = NotRead /\ y_pos_arr = NotRead /\ y_neg_arr = NotRead
    /\ objective_value = 0 /\ mouse_grouping = NotRead
    /\ result = Pending

NextSolve == CallConstructAndSolve \/ OptimizeReturns \/ ReadAssignment \/ ReadObjective

SpecSolve == InitSolve /\ [][NextSolve]_vars


\* C6: whenever construct_and_solve_mouse_grouping_model returns, the grouping
\* has exactly one entry per item, every entry is a group number in 1..K,
\* exactly group_sizes[j] items carry group number j, and the returned objective
\* value equals the sum over groups of |returned group deviation|.
C6_ReturnedGroupingIsPartition ==
    (pc = "done" /\ result.kind = "returned") =>
        LET grouping == result.value.mouse_grouping
            K == Len(group_sizes)
        IN  /\ Len(grouping) = Len(tumor_sizes)
            /\ \A i \in 1..Len(grouping) : grouping[i] \in 1..K
            /\ \A j \in 1..K :
                 Cardinality({i \in 1..Len(grouping) : grouping[i] = j}) = group_sizes[j]
            /\ result.value.objective_value = SumAbs(result.value.group_deviations)

\* C7: when the solver returns a status other than OPTIMAL or FEASIBLE, the call
\* fails on that status (before any solution value is read at line 68), and no
\* grouping is returned.
C7_FailureStatusRaises ==
    (pc = "done" /\ status \in Statuses \ SolutionStatuses) =>
        (result.kind = "raised" /\ result.line < 68)
\* C15: once x is read, the call raises the row error (axis=1, line 72) if some
\* row of x does not sum to 1 within the tolerance of np.isclose, also when a
\* column is off as well; otherwise it raises the column error (axis=0,
\* line 74) if some column j does not sum to group_sizes[j]; in neither case is
\* a grouping derived or returned.
C15_RowCheckBeforeColumnCheck ==
    (pc \in {"deviations", "done"} /\ x_arr # NotRead) =>
        LET rows_ok == \A i \in 1..Len(tumor_sizes) :
                           IsClose(RowSum(x_arr, i), XDen, XDen)
            columns_ok == \A j \in 1..Len(group_sizes) :
                              IsClose(ColumnSum(x_arr, j), group_sizes[j] * XDen, XDen)
        IN  /\ ~rows_ok =>
                 (pc = "done" /\ result = Raised("ValueError", 72)
                     /\ mouse_grouping = NotRead)
            /\ (rows_ok /\ ~columns_ok) =>
                 (pc = "done" /\ result = Raised("ValueError", 74)
                     /\ mouse_grouping = NotRead)

C15_Witness ==
    /\ pc = "done" /\ x_arr # NotRead
    /\ \E i \in 1..Len(tumor_sizes) : RowSum(x_arr, i) = 2 * XDen
    /\ \E j \in 1..Len(group_sizes) : ColumnSum(x_arr, j) = 3 * XDen
    /\ result = Raised("ValueError", 72)

\* C16: for an output that passed the row and column checks, the group
\* deviations are y_pos[j] - y_neg[j], and the call raises the error of line 91
\* whenever the sum of their absolute values differs from the objective value
\* the solver reported.
C16_ObjectiveCrossCheck ==
    (pc = "done" /\ y_pos_arr # NotRead) =>
        LET K == Len(group_sizes)
            deviation == [j \in 1..K |-> y_pos_arr[j] - y_neg_arr[j]]
            total == SumTo([j \in 1..K |-> Abs(deviation[j])], K)
        IN  /\ total # objective_value => result = Raised("ValueError", 91)
            /\ result.kind = "returned" => result.value.group_deviations = deviation

C16_Witness ==
    /\ pc = "done" /\ y_pos_arr # NotRead /\ status = "FEASIBLE"
    /\ \E j \in 1..Len(group_sizes) : y_pos_arr[j] = 1 /\ y_neg_arr[j] = 1
    /\ objective_value = 2
    /\ result = Raised("ValueError", 91)

\* The column of the largest entry of a row (the first one, as np.argmax)
ArgMax(row) ==
    CHOOSE j \in 1..Len(row) :
        /\ \A k \in 1..Len(row) : row[k] <= row[j]
        /\ \A k \in 1..(j - 1) : row[k] < row[j]

\* C18: for every solver output that passes the row and column checks, the
\* derived grouping has one group number per item, in item order, and item i's
\* number is 1 + argmax_j x[i][j].
C18_GroupingIsArgmaxPerItem ==
    (pc \in {"deviations", "done"} /\ mouse_grouping # NotRead) =>
        /\ Len(mouse_grouping) = Len(tumor_sizes)
        /\ \A i \in 1..Len(tumor_sizes) : mouse_grouping[i] = ArgMax(x_arr[i])

\* The solver's output satisfies every constraint of the built model: x is
\* binary, each mouse is in one group, group j holds g[j] mice, the proxies are
\* >= 0 and linked to the group totals; and the reported objective is the
\* objective function of line 157 at that point.
OutputSatisfiesModel ==
    /\ \A i \in 1..model.num_mice, j \in 1..model.num_groups : x_arr[i][j] \in {0, XDen}
    /\ LET x == [i \in 1..model.num_mice |->
                    [j \in 1..model.num_groups |-> x_arr[i][j] \div XDen]]
       IN  /\ \A i \in 1..model.num_mice : SingleAssignment(x[i], model)
           /\ GroupCardinality(x, model)
           /\ \A j \in 1..model.num_groups :
                /\ ProxyBounds(y_pos_arr[j], y_neg_arr[j])
                /\ DeviationLink(GroupTotal(x, model, j), y_pos_arr[j], y_neg_arr[j])
    /\ objective_value =
           SumTo([j \in 1..model.num_groups |-> y_pos_arr[j] + y_neg_arr[j]],
                 model.num_groups)

\* C20: every output with status OPTIMAL or FEASIBLE that satisfies all
\* constraints of the model, with the objective reported as
\* sum(y_pos[j] + y_neg[j]), is accepted and returned, also when both proxies
\* of a group are positive.
C20_ValidOutputAccepted ==
    (pc = "done" /\ status \in SolutionStatuses /\ y_pos_arr # NotRead
        /\ OutputSatisfiesModel)
    => result.kind = "returned"


(***************************************************************************)
(* SpecCall: the argument handling of                                      *)
(* construct_and_solve_mouse_grouping_model (lines 34-58) over every kind  *)
(* of time limit and model_save_path, followed by the opaque solver        *)
(***************************************************************************)
CallCases ==
    {<<(<<0, 0, 3>>), (<<2, 1>>)>>,
     <<(<<1, 1>>), (<<1, 1>>)>>}

\* None, "", and paths with each combination of suffix and folder
CallPaths ==
    {NoPath, [kind |-> "empty"]} \cup
    {[kind |-> "path", suffix |-> s, folder_is_dir |-> f] :
        s \in {".lp", ".mps", ".LP", ".txt"}, f \in BOOLEAN}

InitCall ==
    /\ LoaderIdle
    /\ pc = "call"
    /\ PlannerIdle
    /\ \E c \in CallCases : tumor_sizes = c[1] /\ group_sizes = c[2]
    /\ max_seconds \in (-1)..1
    /\ print_model_stats \in {"False", "invalid"}
    /\ model_save_path \in CallPaths
    /\ model = NoModel /\ files = {}
    /\ optimize_calls = 0 /\ status = None /\ has_solution = FALSE
    /\ x_arr = NotRead /\ y_pos_arr = NotRead /\ y_neg_arr = NotRead
    /\ objective_value = 0 /\ mouse_grouping = NotRead
    /\ result = Pending

NextCall == CallConstructAndSolve \/ OptimizeReturns \/ ReadAssignment \/ ReadObjective

SpecCall == InitCall /\ [][NextCall]_vars

\* The path ends in .lp or .mps, in either case of the letters
EndsInModelSuffix(path) ==
    path.kind = "path" /\ path.suffix \in {".lp", ".mps", ".LP", ".MPS"}

\* The folder part of the path is an existing folder
TargetFolderExists(path) == path.kind = "path" /\ path.folder_is_dir

C12_ShortTimeLimitFailsFirst ==
    (pc # "call" /\ max_seconds < 1) =>
        /\ pc = "done"
        /\ result = Raised("AttributeError", 36)
        /\ model = NoModel
        /\ files = {}
        /\ optimize_calls = 0 /\ status = None

C12_Witness ==
    /\ pc = "done" /\ max_seconds = 0
    /\ model_save_path.kind = "path" /\ EndsInModelSuffix(model_save_path)
    /\ TargetFolderExists(model_save_path)
    /\ construct_mouse_grouping_model(tumor_sizes, group_sizes).kind = "returned"
    /\ result = Raised("AttributeError", 36)
    /\ model = NoModel /\ files = {}

\* C19: the solver's optimize is invoked at most once per call; it is invoked
\* only after the time-limit check and the builder's input checks have passed
\* and, when a model file was requested, after the file has been written; once
\* it has returned a status it is not invoked again.
C19_OptimizeOnceAfterChecks ==
    /\ optimize_calls \in {0, 1}
    /\ optimize_calls = 1 =>
         /\ max_seconds >= 1
         /\ construct_mouse_grouping_model(tumor_sizes, group_sizes).kind = "returned"
         /\ model.built
         /\ model_save_path.kind = "path" =>
              (EndsInModelSuffix(model_save_path) /\ TargetFolderExists(model_save_path)
                  /\ model_save_path \in files)
    /\ status # None => optimize_calls = 1

C19_Witness ==
    /\ pc = "done" /\ optimize_calls = 1
    /\ status = "NO_SOLUTION_FOUND"
    /\ model_save_path.kind = "path" /\ model_save_path \in files

(***************************************************************************)
(* load_and_verify_mouse_id_and_tumor_size_data_frame                      *)
(* (mouse_grouping_utils.py, lines 18-66).  An Excel file is NoFile or     *)
(* [exists |-> TRUE, columns, rows]; a row maps each column name to a      *)
(* cell, and a cell is a number or missing (NaN).                          *)
(***************************************************************************)
MaxRows == 2       \* loader: most rows of an input table
MaxCell == 2       \* loader: largest number in a cell

Missing == [na |-> TRUE, v |-> 0]

Cell(n) == [na |-> FALSE, v |-> n]

\* df[name]
Column(file, name) == [i \in 1..Len(file.rows) |-> file.rows[i][name]]

\* len(series.unique()): NaN counts as one value
NumUnique(col) == Cardinality({col[i] : i \in 1..Len(col)})

\* series.isna().sum()
NumMissing(col) == Cardinality({i \in 1..Len(col) : col[i].na})

\* (series >= 0).all(): a comparison with NaN is False
AllNonNegative(col) == \A i \in 1..Len(col) : ~col[i].na /\ col[i].v >= 0

\* lines 62-65: the two columns renamed to id_column_name and
\* tumor_size_column_name, the rows as they were
Renamed(file, orig_id_column_name, orig_tumor_size_column_name) ==
    [i \in 1..Len(file.rows) |->
        [mouse_id |-> file.rows[i][orig_id_column_name].v,
         tumor_size |-> file.rows[i][orig_tumor_size_column_name].v]]

load_and_verify_mouse_id_and_tumor_size_data_frame(file, orig_id_column_name, orig_tumor_size_column_name) ==
    IF ~file.exists THEN Raised("FileNotFoundError", 34)
    ELSE IF orig_id_column_name \notin file.columns THEN Raised("ValueError", 41)
    ELSE IF orig_tumor_size_column_name \notin file.columns THEN Raised("ValueError", 43)
    ELSE IF orig_id_column_name = orig_tumor_size_column_name THEN Raised("ValueError", 45)
    ELSE IF NumUnique(Column(file, orig_tumor_size_column_name))
              # Len(Column(file, orig_tumor_size_column_name))
         THEN Raised("ValueError", 49)
    ELSE IF NumMissing(Column(file, orig_id_column_name)) # 0 THEN Raised("ValueError", 53)
    ELSE IF NumMissing(Column(file, orig_tumor_size_column_name)) # 0
         THEN Raised("ValueError", 55)
    ELSE IF ~AllNonNegative(Column(file, orig_tumor_size_column_name))
         THEN Raised("ValueError", 59)
    ELSE Returned(Renamed(file, orig_id_column_name, orig_tumor_size_column_name))

\* mouse_grouping_core.py, lines 100-103
LoadAndVerify ==
    /\ pc = "load"
    /\ LET r == load_and_verify_mouse_id_and_tumor_size_data_frame(
                    input_file, cfg.orig_id_column_name, cfg.orig_tumor_size_column_name)
       IN  IF r.kind = "raised"
           THEN /\ result' = r
                /\ pc' = "failed"
                /\ UNCHANGED df
           ELSE /\ df' = r.value
                /\ pc' = "loaded"
                /\ UNCHANGED result
    /\ UNCHANGED <<input_file, cfg, num_mice, min_group_size, tumor_sizes, group_sizes,
                   max_seconds, print_model_stats, model_save_path, model, files,
                   optimize_calls, status, has_solution, x_arr, y_pos_arr, y_neg_arr,
                   objective_value, mouse_grouping>>

(***************************************************************************)
(* SpecLoad: the loader on every small table                               *)
(***************************************************************************)
ColumnNames == {"Mouse ID", "Tumor size"}

Cells == {Missing} \cup {Cell(n) : n \in (-1)..MaxCell}

\* The Excel files with the columns cs and n rows
Tables(cs, n) ==
    {[exists |-> TRUE, columns |-> cs, rows |-> rs] : rs \in [1..n -> [cs -> Cells]]}

InitLoad ==
    /\ pc = "load"
    /\ \/ input_file = NoFile
       \/ \E cs \in SUBSET ColumnNames, n \in 0..MaxRows : input_file \in Tables(cs, n)
    /\ \E id_name \in ColumnNames, size_name \in ColumnNames :
          cfg = [DefaultCfg EXCEPT !.orig_id_column_name = id_name,
                                   !.orig_tumor_size_column_name = size_name]
    /\ df = NotRead
    /\ PlannerIdle /\ BuilderIdle /\ SolverIdle
    /\ result = Pending

NextLoad == LoadAndVerify

SpecLoad == InitLoad /\ [][NextLoad]_vars

\* The table has both named columns, and they are two columns
NamedColumnsPresent ==
    /\ input_file.exists
    /\ cfg.orig_id_column_name \in input_file.columns
    /\ cfg.orig_tumor_size_column_name \in input_file.columns
    /\ cfg.orig_id_column_name # cfg.orig_tumor_size_column_name

\* C13: the loader raises on every table in which two rows share a mouse ID,
\* on every table with a missing ID or tumor size and on every table with a
\* negative tumor size; the ids of a table it returns are pairwise distinct.
C13_LoaderRejectsBadTables ==
    /\ (pc # "load" /\ NamedColumnsPresent) =>
         LET ids == Column(input_file, cfg.orig_id_column_name)
             sizes == Column(input_file, cfg.orig_tumor_size_column_name)
         IN  (\/ \E i, j \in 1..Len(ids) : i # j /\ ids[i] = ids[j]
              \/ \E i \in 1..Len(ids) : ids[i].na \/ sizes[i].na
              \/ \E i \in 1..Len(sizes) : ~sizes[i].na /\ sizes[i].v < 0)
             => (pc = "failed" /\ result.kind = "raised")
    /\ pc = "loaded" =>
         \A i, j \in 1..Len(df) : i # j => df[i].mouse_id # df[j].mouse_id

\* C22: the loader accepts every table that has both named (distinct) columns,
\* pairwise distinct mouse IDs, no missing value and only non-negative tumor
\* sizes, also when two mice have the same tumor size, and returns it with the
\* two columns renamed and the rows unchanged and in order.
C22_LoaderAcceptsValidTables ==
    (pc # "load" /\ NamedColumnsPresent) =>
        LET ids == Column(input_file, cfg.orig_id_column_name)
            sizes == Column(input_file, cfg.orig_tumor_size_column_name)
        IN  (/\ \A i, j \in 1..Len(ids) : i # j => ids[i] # ids[j]
             /\ \A i \in 1..Len(ids) : ~ids[i].na /\ ~sizes[i].na
             /\ \A i \in 1..Len(sizes) : sizes[i].v >= 0)
            => /\ pc = "loaded"
               /\ Len(df) = Len(ids)
               /\ \A i \in 1..Len(ids) :
                    df[i] = [mouse_id |-> ids[i].v, tumor_size |-> sizes[i].v]

(***************************************************************************)
(* find_optimal_mouse_grouping (mouse_grouping_core.py, lines 83-149)      *)
(***************************************************************************)
\* The two result files, at cfg.xlsx_file_name and cfg.plot_file_name
XlsxFile == [kind |-> "xlsx"]

PlotFile == [kind |-> "plot"]

ResultFiles == {XlsxFile, PlotFile}

\* lines 105-118: the output folder check, the group sizes, the tumor sizes and
\* the model save path
PrepareRun ==
    /\ pc = "loaded"
    /\ IF ~cfg.output_folder_is_dir
       THEN /\ result' = Raised("NotADirectoryError", 107)
            /\ pc' = "failed"
            /\ UNCHANGED <<num_mice, group_sizes, tumor_sizes, model_save_path>>
       ELSE LET r == compute_group_sizes(Len(df), min_group_size)
            IN  /\ num_mice' = Len(df)
                /\ IF r.kind = "raised"
                   THEN /\ result' = r
                        /\ pc' = "failed"
                        /\ UNCHANGED <<group_sizes, tumor_sizes, model_save_path>>
                   ELSE /\ group_sizes' = r.value
                        /\ tumor_sizes' = [i \in 1..Len(df) |-> df[i].tumor_size]
                        /\ model_save_path' =
                             IF cfg.save_model
                             THEN [kind |-> "path", suffix |-> cfg.model_file_suffix,
                                   folder_is_dir |-> TRUE]
                             ELSE NoPath
                        /\ pc' = "call"
                        /\ UNCHANGED result
    /\ UNCHANGED <<input_file, cfg, df, min_group_size, max_seconds, print_model_stats,
                   model, files, optimize_calls, status, has_solution, x_arr, y_pos_arr,
                   y_neg_arr, objective_value, mouse_grouping>>

\* lines 126-144: the grouping becomes a column of the data frame (an array of
\* another length than the frame is a ValueError) and the XLSX file is written;
\* the write may fail in the file system
SaveResults ==
    /\ pc = "done"
    /\ result.kind = "returned"
    /\ IF Len(result.value.mouse_grouping) # Len(df)
       THEN /\ result' = Raised("ValueError", 130)
            /\ pc' = "finished"
            /\ UNCHANGED <<df, files>>
       ELSE /\ df' = [i \in 1..Len(df) |->
                         [group |-> result.value.mouse_grouping[i],
                          mouse_id |-> df[i].mouse_id,
                          tumor_size |-> df[i].tumor_size]]
            /\ \E written \in BOOLEAN :
                  IF written
                  THEN /\ files' = files \cup {XlsxFile}
                       /\ pc' = "plot"
                       /\ UNCHANGED result
                  ELSE /\ result' = Raised("OSError", 144)
                       /\ pc' = "finished"
                       /\ UNCHANGED files
    /\ UNCHANGED <<input_file, cfg, num_mice, min_group_size, tumor_sizes, group_sizes,
                   max_seconds, print_model_stats, model_save_path, model, optimize_calls,
                   status, has_solution, x_arr, y_pos_arr, y_neg_arr, objective_value,
                   mouse_grouping>>

\* lines 146-149 and plot_mouse_groups (mouse_grouping_utils.py, lines
\* 304-349): the plot is saved if its path ends in .png
PlotResults ==
    /\ pc = "plot"
    /\ IF Lower(cfg.plot_file_suffix) # ".png"
       THEN /\ result' = Raised("ValueError", 343)
            /\ UNCHANGED files
       ELSE \E written \in BOOLEAN :
              IF written
              THEN /\ files' = files \cup {PlotFile}
                   /\ result' = Returned(None)
              ELSE /\ result' = Raised("OSError", 345)
                   /\ UNCHANGED files
    /\ pc' = "finished"
    /\ UNCHANGED <<input_file, cfg, df, num_mice, min_group_size, tumor_sizes, group_sizes,
                   max_seconds, print_model_stats, model_save_path, model, optimize_calls,
                   status, has_solution, x_arr, y_pos_arr, y_neg_arr, objective_value,
                   mouse_grouping>>

(***************************************************************************)
(* SpecRun: whole runs of find_optimal_mouse_grouping against an opaque    *)
(* solver                                                                  *)
(***************************************************************************)
\* An Excel file with the default columns and the given (id, tumor size) rows
ExcelFile(pairs) ==
    [exists |-> TRUE,
     columns |-> ColumnNames,
     rows |-> [i \in 1..Len(pairs) |->
                  [c \in ColumnNames |->
                      IF c = "Mouse ID" THEN Cell(pairs[i][1]) ELSE Cell(pairs[i][2])]]]

RunFiles ==
    {NoFile,
     ExcelFile(<<(<<1, 0>>), (<<2, 1>>), (<<3, 2>>), (<<4, 3>>)>>),
     ExcelFile(<<(<<1, 0>>), (<<2, 1>>), (<<3, 1>>), (<<4, 3>>)>>),
     ExcelFile(<<(<<1, 0>>), (<<1, 1>>), (<<2, 2>>)>>)}

RunConfigs ==
    {DefaultCfg,
     [DefaultCfg EXCEPT !.save_model = TRUE, !.plot_file_suffix = ".pdf"],
     [DefaultCfg EXCEPT !.output_folder_is_dir = FALSE]}

InitRun ==
    /\ pc = "load"
    /\ input_file \in RunFiles
    /\ cfg \in RunConfigs
    /\ df = NotRead
    /\ num_mice = 0
    /\ min_group_size \in {2, 5}
    /\ BuilderIdle
    /\ max_seconds \in 0..1 /\ print_model_stats = "False"
    /\ model_save_path = NoPath /\ files = {}
    /\ optimize_calls = 0 /\ status = None /\ has_solution = FALSE
    /\ x_arr = NotRead /\ y_pos_arr = NotRead /\ y_neg_arr = NotRead
    /\ objective_value = 0 /\ mouse_grouping = NotRead
    /\ result = Pending

NextRun ==
    \/ LoadAndVerify
    \/ PrepareRun
    \/ CallConstructAndSolve
    \/ OptimizeReturns
    \/ ReadAssignment
    \/ ReadObjective
    \/ SaveResults
    \/ PlotResults

SpecRun == InitRun /\ [][NextRun]_vars

\* C14: a result file (the XLSX table or the plot) exists only once the solver
\* output has passed the row-sum check, the column-sum check and the objective
\* cross-check; a run in which one of these checks or an earlier step raised
\* has written no result file.
C14_ResultFilesOnlyAfterChecks ==
    /\ (files \cap ResultFiles # {}) =>
         /\ optimize_calls = 1 /\ status # None
         /\ x_arr # NotRead /\ y_pos_arr # NotRead
         /\ \A i \in 1..Len(df) : IsClose(RowSum(x_arr, i), XDen, XDen)
         /\ \A j \in 1..Len(group_sizes) :
                IsClose(ColumnSum(x_arr, j), group_sizes[j] * XDen, XDen)
         /\ IsClose(objective_value,
                    SumTo([j \in 1..Len(group_sizes) |->
                              Abs(y_pos_arr[j] - y_neg_arr[j])], Len(group_sizes)),
                    Len(df))
    /\ (pc \in {"failed", "done"} /\ result.kind = "raised") =>
         files \cap ResultFiles = {}
    /\ pc \in {"load", "loaded", "call", "optimizing", "extract", "deviations"} =>
         files \cap ResultFiles = {}

C14_Witness ==
    /\ pc = "finished"
    /\ files = ResultFiles
    /\ result = Returned(None)
    /\ status = "FEASIBLE"
    /\ Len(mouse_grouping) = Len(df)

(***************************************************************************)
(* SpecReach: find_optimal_mouse_grouping from the loaded data frame to    *)
(* the invocation of the solver (mouse_grouping_core.py, lines 105-124),   *)
(* over every number of mice and minimum group size                        *)
(***************************************************************************)
\* A data frame of n mice as the loader returns it: tumor sizes pairwise
\* different and non-negative
LoadedFrame(n, first) == [i \in 1..n |-> [mouse_id |-> i, tumor_size |-> first + i - 1]]

ReachConfigs ==
    {DefaultCfg,
     [DefaultCfg EXCEPT !.save_model = TRUE],
     [DefaultCfg EXCEPT !.save_model = TRUE, !.model_file_suffix = ".txt"],
     [DefaultCfg EXCEPT !.output_folder_is_dir = FALSE]}

InitReach ==
    /\ pc = "loaded"
    /\ input_file = ExcelFile(<<>>)
    /\ cfg \in ReachConfigs
    /\ \E n \in 0..MaxItems, first \in 0..1 : df = LoadedFrame(n, first)
    /\ num_mice = 0
    /\ min_group_size \in (-MaxNegative)..MaxItems
    /\ BuilderIdle
    /\ max_seconds \in 0..1 /\ print_model_stats = "False"
    /\ model_save_path = NoPath /\ files = {}
    /\ optimize_calls = 0 /\ status = None /\ has_solution = FALSE
    /\ x_arr = NotRead /\ y_pos_arr = NotRead /\ y_neg_arr = NotRead
    /\ objective_value = 0 /\ mouse_grouping = NotRead
    /\ result = Pending

NextReach == PrepareRun \/ CallConstructAndSolve

SpecReach == InitReach /\ [][NextReach]_vars

\* Nothing but the group sizes stands between the run and the solver: the
\* output folder exists, the time limit is at least a second, and a model
\* file, if one is to be saved, has a model file ending
RunOtherwiseValid ==
    /\ cfg.output_folder_is_dir
    /\ max_seconds >= 1
    /\ print_model_stats \in {"True", "False"}
    /\ cfg.save_model => cfg.model_file_suffix \in {".lp", ".mps", ".LP", ".MPS"}

\* The builder's preconditions on the group sizes, and the solver invoked
\* once the builder has run
PlannedSizesReachSolver ==
    /\ pc \in {"call", "optimizing"}
    /\ Len(group_sizes) >= 2
    /\ \A j \in 1..Len(group_sizes) : group_sizes[j] > 0
    /\ SeqSum(group_sizes) = Len(df)
    /\ pc = "optimizing" => (model.built /\ optimize_calls = 1)

\* C21 (as stated): for every number of mice >= 3 and min_group_size >= 1 with
\* at least min_group_size mice, the sizes compute_group_sizes returns satisfy
\* the builder's preconditions (at least 2 groups, all sizes > 0, sum equal to
\* the number of mice) and the run reaches the solver.
C21_PlannedSizesAlwaysReachSolver ==
    (pc # "loaded" /\ RunOtherwiseValid
        /\ Len(df) >= 3 /\ min_group_size >= 1 /\ Len(df) >= min_group_size)
    => PlannedSizesReachSolver

\* C21 (amended): the same for every number of mice >= 3 and
\* min_group_size >= 1 with at least 2 * min_group_size mice.
C21_TwoGroupsReachSolver ==
    (pc # "loaded" /\ RunOtherwiseValid
        /\ Len(df) >= 3 /\ min_group_size >= 1 /\ Len(df) >= 2 * min_group_size)
    => PlannedSizesReachSolver

C21_Witness ==
    /\ pc = "optimizing"
    /\ Len(df) = 7 /\ min_group_size = 3
    /\ group_sizes = <<4, 3>>
    /\ model.built /\ optimize_calls = 1
    /\ cfg.save_model /\ files # {}

====
